---------------------------- MODULE Spec2Model ----------------------------
(***************************************************************************)
(* A model of the web page summarizer: scraper.py (fetch_html,             *)
(* extract_sentences, split_sentences, summarize_sentences,                *)
(* tokenize_sentence, run, main) and webapp.py (the POST handler).         *)
(*                                                                         *)
(* A Python str is a sequence of one-character strings, so that len(),     *)
(* strip(), lower() and the regular expressions are computed character by  *)
(* character.  A list is a sequence; a dict or Counter is a function whose *)
(* DOMAIN is its key set; None is the empty sequence and any other         *)
(* optional value v is <<v>>.                                              *)
(***************************************************************************)
EXTENDS Integers, Sequences, FiniteSets, TLC

VARIABLES
    pc,               \* position of the call in progress
    caller,           \* "none" (a function called on its own), "cli" or "web"
    text,             \* split_sentences: argument
    normalized,       \* split_sentences: return value
    html,             \* extract_sentences: the parsed document
    page,             \* extract_sentences: <<PageContent>>, None before
    sentences,        \* summarize_sentences: argument
    max_sentences,    \* summarize_sentences: argument
    min_chars,        \* summarize_sentences: argument
    filtered,         \* summarize_sentences: local
    word_freq,        \* summarize_sentences: local (Counter)
    sentence_scores,  \* summarize_sentences: local (dict)
    summary,          \* summarize_sentences: return value
    exc,              \* message of the ScraperError raised, "" when none
    argv,             \* main: the command line values; POST: the form values
    args,             \* <<the numeric arguments handed to run>>, None before
    calls,            \* how many times each stage of run was entered
    output,           \* main: <<what was printed or saved>>, None when nothing
    exit_status,      \* main: the process exit status, -1 while running
    result,           \* POST: result handed to render_template
    error             \* POST: error handed to render_template

vars == <<pc, caller, text, normalized, html, page, sentences, max_sentences,
          min_chars, filtered, word_freq, sentence_scores, summary, exc, argv,
          args, calls, output, exit_status, result, error>>

(***************************************************************************)
(* Bounds of the model.                                                    *)
(***************************************************************************)
MaxSentences == 3
MaxTop == 3
MaxMinChars == 4
MaxTextLen == 6

(***************************************************************************)
(* Python values and built-ins.                                            *)
(***************************************************************************)
None == <<>>

Range(f) == {f[i] : i \in DOMAIN f}

Max(a, b) == IF a >= b THEN a ELSE b

Min(a, b) == IF a <= b THEN a ELSE b

\* Characters str.strip() removes and the regular expression class \s matches.
Whitespace == {" ", "\t", "\n"}

UpperLetters == <<"A","B","C","D","E","F","G","H","I","J","K","L","M",
                  "N","O","P","Q","R","S","T","U","V","W","X","Y","Z">>

LowerLetters == <<"a","b","c","d","e","f","g","h","i","j","k","l","m",
                  "n","o","p","q","r","s","t","u","v","w","x","y","z">>

Digits == <<"0","1","2","3","4","5","6","7","8","9">>

\* str.lower() of one character: the table of the letters it changes.
ToLower ==
    [c \in Range(UpperLetters) |->
        LowerLetters[CHOOSE i \in DOMAIN UpperLetters : UpperLetters[i] = c]]

LowerChar(c) == IF c \in DOMAIN ToLower THEN ToLower[c] ELSE c

\* str.lower().
Lower(s) == [i \in DOMAIN s |-> LowerChar(s[i])]

\* The regular expression class [a-zA-Z].
Letters == Range(UpperLetters) \cup Range(LowerLetters)

IsAlpha(c) == c \in Letters

\* str.strip(): the string without its leading and trailing whitespace.
Strip(s) ==
    LET keep == {i \in DOMAIN s : s[i] \notin Whitespace}
    IN  IF keep = {} THEN <<>>
        ELSE LET lo == CHOOSE i \in keep : \A j \in keep : i <= j
                 hi == CHOOSE i \in keep : \A j \in keep : i >= j
             IN  SubSeq(s, lo, hi)

\* sep.join(parts)
RECURSIVE Join(_, _)
Join(sep, parts) ==
    IF parts = <<>> THEN <<>>
    ELSE IF Len(parts) = 1 THEN parts[1]
    ELSE parts[1] \o sep \o Join(sep, Tail(parts))

\* list.index(x): the position of the first occurrence (1-based here).
Index(list, x) == CHOOSE i \in DOMAIN list : list[i] = x /\ \A j \in 1..(i-1) : list[j] # x

\* sorted(list, key=key, reverse=reverse) and list.sort: a stable sort; with
\* reverse=True items of equal key still keep their original order.
RECURSIVE sorted(_, _, _)
sorted(list, key, reverse) ==
    IF list = <<>> THEN <<>>
    ELSE LET n == Len(list)
             init == sorted(SubSeq(list, 1, n - 1), key, reverse)
             x == list[n]
             before == {i \in DOMAIN init :
                          IF reverse THEN key[init[i]] >= key[x]
                                     ELSE key[init[i]] <= key[x]}
             pos == Cardinality(before)
         IN  SubSeq(init, 1, pos) \o <<x>> \o SubSeq(init, pos + 1, n - 1)

\* max(iterable, key=key): the first item of largest key.
MaxBy(list, key) ==
    list[CHOOSE i \in DOMAIN list :
            /\ \A j \in DOMAIN list : key[list[j]] <= key[list[i]]
            /\ \A j \in 1..(i-1) : key[list[j]] < key[list[i]]]

\* Variant of nlargest: sorted(iterable, key=key)[::-1][:n], which turns the
\* order of items of equal key around.
nlargest_reversed(n, list, key) ==
    LET up == sorted(list, key, FALSE)
        down == [i \in DOMAIN up |-> up[Len(up) + 1 - i]]
    IN  IF n <= 0 THEN <<>> ELSE SubSeq(down, 1, Min(n, Len(list)))

\* heapq.nlargest(n, iterable, key=key).  n == 1 is max(); n >= len is
\* sorted(..., reverse=True)[:n]; the heap of (key, order, item) triples, order
\* counting down from 0, gives the same list, and none when n <= 0.
nlargest(n, list, key) ==
    IF n = 1 THEN (IF list = <<>> THEN <<>> ELSE <<MaxBy(list, key)>>)
    ELSE IF n <= 0 THEN <<>>
    ELSE SubSeq(sorted(list, key, TRUE), 1, Min(n, Len(list)))

(***************************************************************************)
(* scraper.py                                                              *)
(***************************************************************************)
STOP_WORDS == {
    <<"a">>, <<"a","b","o","u","t">>, <<"a","b","o","v","e">>, <<"a","f","t","e","r">>,
    <<"a","g","a","i","n">>, <<"a","g","a","i","n","s","t">>, <<"a","l","l">>, <<"a","m">>,
    <<"a","n">>, <<"a","n","d">>, <<"a","n","y">>, <<"a","r","e">>, <<"a","s">>, <<"a","t">>,
    <<"b","e">>, <<"b","e","c","a","u","s","e">>, <<"b","e","e","n">>,
    <<"b","e","f","o","r","e">>, <<"b","e","i","n","g">>, <<"b","e","l","o","w">>,
    <<"b","e","t","w","e","e","n">>, <<"b","o","t","h">>, <<"b","u","t">>, <<"b","y">>,
    <<"c","o","u","l","d">>, <<"d","i","d">>, <<"d","o">>, <<"d","o","e","s">>,
    <<"d","o","i","n","g">>, <<"d","o","w","n">>, <<"d","u","r","i","n","g">>,
    <<"e","a","c","h">>, <<"f","e","w">>, <<"f","o","r">>, <<"f","r","o","m">>,
    <<"f","u","r","t","h","e","r">>, <<"h","a","d">>, <<"h","a","s">>, <<"h","a","v","e">>,
    <<"h","a","v","i","n","g">>, <<"h","e">>, <<"h","e","r">>, <<"h","e","r","e">>,
    <<"h","e","r","s">>, <<"h","e","r","s","e","l","f">>, <<"h","i","m">>,
    <<"h","i","m","s","e","l","f">>, <<"h","i","s">>, <<"h","o","w">>, <<"i">>, <<"i","f">>,
    <<"i","n">>, <<"i","n","t","o">>, <<"i","s">>, <<"i","t">>, <<"i","t","s">>,
    <<"i","t","s","e","l","f">>, <<"j","u","s","t">>, <<"m","e">>, <<"m","o","r","e">>,
    <<"m","o","s","t">>, <<"m","y">>, <<"m","y","s","e","l","f">>, <<"n","o">>,
    <<"n","o","r">>, <<"n","o","t">>, <<"n","o","w">>, <<"o","f">>, <<"o","f","f">>,
    <<"o","n">>, <<"o","n","c","e">>, <<"o","n","l","y">>, <<"o","r">>,
    <<"o","t","h","e","r">>, <<"o","u","r">>, <<"o","u","r","s">>,
    <<"o","u","r","s","e","l","v","e","s">>, <<"o","u","t">>, <<"o","v","e","r">>,
    <<"o","w","n">>, <<"s","a","m","e">>, <<"s","h","e">>, <<"s","h","o","u","l","d">>,
    <<"s","o">>, <<"s","o","m","e">>, <<"s","u","c","h">>, <<"t","h","a","n">>,
    <<"t","h","a","t">>, <<"t","h","e">>, <<"t","h","e","i","r">>, <<"t","h","e","i","r","s">>,
    <<"t","h","e","m">>, <<"t","h","e","m","s","e","l","v","e","s">>, <<"t","h","e","n">>,
    <<"t","h","e","r","e">>, <<"t","h","e","s","e">>, <<"t","h","e","y">>, <<"t","h","i","s">>,
    <<"t","h","o","s","e">>, <<"t","h","r","o","u","g","h">>, <<"t","o">>, <<"t","o","o">>,
    <<"u","n","d","e","r">>, <<"u","n","t","i","l">>, <<"u","p">>, <<"v","e","r","y">>,
    <<"w","a","s">>, <<"w","e">>, <<"w","e","r","e">>, <<"w","h","a","t">>,
    <<"w","h","e","n">>, <<"w","h","e","r","e">>, <<"w","h","i","c","h">>,
    <<"w","h","i","l","e">>, <<"w","h","o">>, <<"w","h","o","m">>, <<"w","h","y">>,
    <<"w","i","l","l">>, <<"w","i","t","h">>, <<"y","o","u">>, <<"y","o","u","r">>,
    <<"y","o","u","r","s">>, <<"y","o","u","r","s","e","l","f">>,
    <<"y","o","u","r","s","e","l","v","e","s">> }

\* re.findall(r"[a-zA-Z]+", s): the maximal runs of letters, left to right;
\* cur is the run being read at position i.
RECURSIVE FindAllAlpha(_, _, _)
FindAllAlpha(s, i, cur) ==
    IF i > Len(s) THEN (IF cur = <<>> THEN <<>> ELSE <<cur>>)
    ELSE IF IsAlpha(s[i]) THEN FindAllAlpha(s, i + 1, Append(cur, s[i]))
    ELSE (IF cur = <<>> THEN <<>> ELSE <<cur>>) \o FindAllAlpha(s, i + 1, <<>>)

tokenize_sentence(sentence) ==
    LET words == FindAllAlpha(Lower(sentence), 1, <<>>)
    IN  SelectSeq(words, LAMBDA word : word \notin STOP_WORDS)

\* Variant of Filtered: len(s) > min_chars.
FilteredLonger(sents, minc) == SelectSeq(sents, LAMBDA s : Len(s) > minc)

\* filtered = [s for s in sentences if len(s) >= min_chars]
Filtered(sents, minc) == SelectSeq(sents, LAMBDA s : Len(s) >= minc)

\* Counter lookup: a missing key counts 0.
Count(counter, word) == IF word \in DOMAIN counter THEN counter[word] ELSE 0

\* Variant of CountSentence: word_freq[word] += 1 for each word of words,
\* repeated words counted each time.
RECURSIVE CountWords(_, _)
CountWords(counter, words) ==
    IF words = <<>> THEN counter
    ELSE LET w == Head(words)
         IN  CountWords([v \in DOMAIN counter \cup {w} |->
                            Count(counter, v) + (IF v = w THEN 1 ELSE 0)],
                        Tail(words))

CountSentenceOccurrences(counter, sentence) ==
    CountWords(counter, tokenize_sentence(sentence))

\* One pass of the first loop: word_freq[word] += 1 for each word of
\* set(tokenize_sentence(sentence)); a sentence without words is skipped.
CountSentence(counter, sentence) ==
    LET words == tokenize_sentence(sentence)
        unique_words == Range(words)
    IN  IF words = <<>> THEN counter
        ELSE [w \in DOMAIN counter \cup unique_words |->
                 Count(counter, w) + (IF w \in unique_words THEN 1 ELSE 0)]

\* The first loop over filtered, from an empty Counter.
RECURSIVE WordFreq(_)
WordFreq(filt) ==
    IF filt = <<>> THEN <<>>
    ELSE CountSentence(WordFreq(SubSeq(filt, 1, Len(filt) - 1)), filt[Len(filt)])

\* sum(word_freq[word] for word in words)
RECURSIVE SumFreq(_, _)
SumFreq(counter, words) ==
    IF words = <<>> THEN 0
    ELSE Count(counter, Head(words)) + SumFreq(counter, Tail(words))

\* The second loop: sentence_scores[sentence] = sum(...), keyed by the
\* sentence's value.
SentenceScores(filt, counter) ==
    [s \in Range(filt) |-> SumFreq(counter, tokenize_sentence(s))]

\* Variant of SortByIndex: the selection is returned as nlargest ordered it.
KeepSelectionOrder(top, sents) == top

\* top_sentences.sort(key=lambda s: sentences.index(s))
SortByIndex(top, sents) ==
    sorted(top, [s \in Range(sents) |-> Index(sents, s)], FALSE)

ErrNoSentences == "Not enough substantial sentences were found to build a summary."
ErrNoWords == "Failed to compute word frequencies for summarization."
ErrNoText == "Unable to extract textual content from the page."

\* summarize_sentences: its locals, the list returned and the error raised.
summarize_sentences(sents, maxs, minc) ==
    LET filt == Filtered(sents, minc)
        freq == WordFreq(filt)
        scores == SentenceScores(filt, freq)
        top == nlargest(maxs, filt, scores)
    IN  IF filt = <<>>
        THEN [raised |-> ErrNoSentences, filtered |-> filt, word_freq |-> <<>>,
              sentence_scores |-> <<>>, value |-> <<>>]
        ELSE IF DOMAIN freq = {}
        THEN [raised |-> ErrNoWords, filtered |-> filt, word_freq |-> freq,
              sentence_scores |-> <<>>, value |-> <<>>]
        ELSE [raised |-> "", filtered |-> filt, word_freq |-> freq,
              sentence_scores |-> scores, value |-> SortByIndex(top, sents)]

\* re.compile(r"(?<=[.!?])\s+").split(text): a match starts at a whitespace
\* character that follows '.', '!' or '?' and takes the whole whitespace run;
\* cur is the piece being read at position i.
SentenceEnd == {".", "!", "?"}

RECURSIVE SkipWhitespace(_, _)
SkipWhitespace(s, i) ==
    IF i <= Len(s) /\ s[i] \in Whitespace THEN SkipWhitespace(s, i + 1) ELSE i

\* Variant of SplitAtEndings: the pattern without its lookbehind, \s+.
RECURSIVE SplitAtWhitespace(_, _, _)
SplitAtWhitespace(s, i, cur) ==
    IF i > Len(s) THEN <<cur>>
    ELSE IF s[i] \in Whitespace
    THEN <<cur>> \o SplitAtWhitespace(s, SkipWhitespace(s, i), <<>>)
    ELSE SplitAtWhitespace(s, i + 1, Append(cur, s[i]))

RECURSIVE SplitAtEndings(_, _, _)
SplitAtEndings(s, i, cur) ==
    IF i > Len(s) THEN <<cur>>
    ELSE IF s[i] \in Whitespace /\ i > 1 /\ s[i-1] \in SentenceEnd
    THEN <<cur>> \o SplitAtEndings(s, SkipWhitespace(s, i), <<>>)
    ELSE SplitAtEndings(s, i + 1, Append(cur, s[i]))

split_sentences(txt) ==
    LET candidates == SplitAtEndings(txt, 1, <<>>)
        kept == SelectSeq(candidates, LAMBDA candidate : Strip(candidate) # <<>>)
    IN  [i \in DOMAIN kept |-> Strip(kept[i])]

\* re.sub(r"\s+", " ", s): every whitespace run becomes one space.
RECURSIVE CollapseWhitespace(_)
CollapseWhitespace(s) ==
    IF s = <<>> THEN <<>>
    ELSE IF Head(s) \in Whitespace
    THEN <<" ">> \o CollapseWhitespace(SubSeq(s, SkipWhitespace(s, 1), Len(s)))
    ELSE <<Head(s)>> \o CollapseWhitespace(Tail(s))

(***************************************************************************)
(* A parsed document is [title, body]: title is None without a title       *)
(* element and <<its text>> with one; body is the sequence of the body's   *)
(* elements, each [tag, text] with text the element's one text node ("" is *)
(* no text node).                                                          *)
(***************************************************************************)
Decomposed == {"script", "style", "noscript", "header", "footer", "form"}

UntitledPage == <<"U","n","t","i","t","l","e","d"," ","p","a","g","e">>

\* for tag in soup([...]): tag.decompose()
Decompose(doc) ==
    [doc EXCEPT !.body = SelectSeq(doc.body, LAMBDA e : e.tag \notin Decomposed)]

\* title_tag.text.strip() if title_tag and title_tag.text else "Untitled page"
TitleOf(soup) ==
    IF soup.title # None /\ soup.title[1] # <<>>
    THEN Strip(soup.title[1])
    ELSE UntitledPage

\* [p.get_text(separator=" ", strip=True) for p in soup.find_all("p")]
Paragraphs(soup) ==
    LET ps == SelectSeq(soup.body, LAMBDA e : e.tag = "p")
    IN  [i \in DOMAIN ps |-> Strip(ps[i].text)]

\* soup.get_text(separator=" "): every text node of the document, the title
\* element's included, joined by the separator.
SoupText(soup) ==
    LET head == IF soup.title # None /\ soup.title[1] # <<>>
                THEN <<soup.title[1]>> ELSE <<>>
        nodes == SelectSeq(soup.body, LAMBDA e : e.text # <<>>)
    IN  Join(<<" ">>, head \o [i \in DOMAIN nodes |-> nodes[i].text])

RawText(soup) ==
    IF Paragraphs(soup) = <<>> THEN SoupText(soup)
    ELSE Join(<<" ">>, Paragraphs(soup))

\* extract_sentences: the PageContent returned, or the error raised.
extract_sentences(doc) ==
    LET soup == Decompose(doc)
        cleaned == Strip(CollapseWhitespace(RawText(soup)))
    IN  IF cleaned = <<>>
        THEN [raised |-> ErrNoText, cleaned |-> cleaned, title |-> <<>>,
              sentences |-> <<>>]
        ELSE [raised |-> "", cleaned |-> cleaned, title |-> TitleOf(soup),
              sentences |-> split_sentences(cleaned)]

\* PageContent.text
PageText(p) == Join(<<" ">>, p.sentences)

\* format_summary
format_summary(p, summary_sentences) ==
    Join(<<"\n">>, <<p.title, <<>>>> \o
                   [i \in DOMAIN summary_sentences |->
                       <<"-", " ">> \o summary_sentences[i]])

\* int(s): whitespace around the number is ignored, a sign may come first,
\* then at least one decimal digit; <<the value>>, or None for ValueError.
\* (Digit-grouping underscores and non-ASCII digits are not among the inputs.)
DigitValue == [d \in Range(Digits) |-> (CHOOSE i \in DOMAIN Digits : Digits[i] = d) - 1]

RECURSIVE DigitsValue(_)
DigitsValue(ds) ==
    IF ds = <<>> THEN 0
    ELSE 10 * DigitsValue(SubSeq(ds, 1, Len(ds) - 1))
         + DigitValue[ds[Len(ds)]]

ParseInt(s) ==
    LET t == Strip(s)
        signed == t # <<>> /\ Head(t) \in {"+", "-"}
        ds == IF signed THEN Tail(t) ELSE t
    IN  IF ds = <<>> \/ \E i \in DOMAIN ds : ds[i] \notin DOMAIN DigitValue THEN None
        ELSE IF signed /\ Head(t) = "-" THEN <<0 - DigitsValue(ds)>>
        ELSE <<DigitsValue(ds)>>

(***************************************************************************)
(* Inputs.                                                                 *)
(***************************************************************************)
\* All sequences over S of length at most n.
SeqsUpTo(S, n) == UNION {[1..k -> S] : k \in 0..n}

\* Texts handed to split_sentences on its own.
TextAlphabet == {"a", ".", "?", " ", "\n"}

Texts == SeqsUpTo(TextAlphabet, MaxTextLen)

\* Sentences handed to summarize_sentences on its own.
SentencePool == { <<"G","o",".">> ,  <<"G","o"," ","g","o","!">> ,  <<"R","u","n",".">> ,  <<"W","e"," ","r","u","n",".">> ,  <<"I","t"," ","i","s",".">> ,  <<"4","2",".">> }

SentenceLists == SeqsUpTo(SentencePool, MaxSentences)

\* Documents handed to extract_sentences on its own.
MaxBody == 2

TitlePool == {None, <<<<>>>>, << <<" ">> >>, << <<"T">> >>, << <<" ","M","y"," ","p","a","g","e","\n">> >>}

ElementPool == [tag : {"p", "div", "script", "form"},
                text : {<<>>,  <<" ">> ,  <<"H","i",".">> ,  <<"G","o","."," "," ","R","u","n","!","\n","O","k">> }]

Docs == [title : TitlePool, body : SeqsUpTo(ElementPool, MaxBody)]

\* Documents a fetch may return in a run of the whole pipeline.
PageDocs == {
    [title |-> << <<"P","e","t","s">> >>,
     body |-> << [tag |-> "p", text |->  <<"C","a","t","s"," ","p","u","r","r"," ","l","o","u","d","l","y","."," ","D","o","g","s"," ","b","a","r","k",".">> ],
                 [tag |-> "p", text |->  <<"C","a","t","s"," ","n","a","p",".">> ] >>],
    [title |-> None,
     body |-> << [tag |-> "div", text |->  <<"I","t"," ","i","s"," ","t","h","e","r","e",".">> ] >>],
    [title |-> << <<" ">> >>,
     body |-> << [tag |-> "script", text |->  <<"x">> ] >>],
    [title |-> << <<"T">> >>, body |-> <<>>] }

\* Command line values: None is an option left out.
CliArgv == [url : {<< <<"u">> >>},
            sentences : {None, << <<"2">> >>, << <<"0">> >>, << <<"-","1">> >>, << <<"x">> >>},
            min_chars : {None, << <<"0">> >>, << <<"-","3">> >>, << <<"1","2">> >>},
            output : {None, << <<"o">> >>}]

\* Form values: None is a field left out.
FormValues == [url : {None, << <<" ">> >>, << <<" ","u">> >>},
               sentences : {None, << <<"2">> >>, << <<"0">> >>, << <<" ","1"," ">> >>, << <<"x">> >>, << <<>> >>},
               min_chars : {None, << <<"0">> >>, << <<"1","2">> >>, << <<"-","3">> >>, << <<"t","e","n">> >>},
               output : {None}]

NoCalls == [fetch |-> 0, extract |-> 0, summarize |-> 0]

(***************************************************************************)
(* Initial states.                                                         *)
(***************************************************************************)
\* Nothing fetched, extracted or split yet.
NoPage ==
    /\ text = <<>> /\ normalized = <<>>
    /\ html = None /\ page = None

\* No summarize_sentences call yet.
NoSummary ==
    /\ filtered = <<>> /\ word_freq = <<>> /\ sentence_scores = <<>>
    /\ summary = <<>>

\* No presentation layer.
NoCaller ==
    /\ caller = "none" /\ exc = ""
    /\ argv = None /\ args = None /\ calls = NoCalls
    /\ output = None /\ exit_status = -1 /\ result = None /\ error = None

InitSplit ==
    /\ pc = "split" /\ NoCaller /\ NoSummary
    /\ text \in Texts /\ normalized = <<>> /\ html = None /\ page = None
    /\ sentences = <<>> /\ max_sentences = 0 /\ min_chars = 0

InitExtract ==
    /\ pc = "extract" /\ NoCaller /\ NoSummary
    /\ text = <<>> /\ normalized = <<>> /\ html \in {<<d>> : d \in Docs} /\ page = None
    /\ sentences = <<>> /\ max_sentences = 0 /\ min_chars = 0

InitSummarize ==
    /\ pc = "summarize" /\ NoCaller /\ NoSummary /\ NoPage
    /\ sentences \in SentenceLists
    /\ max_sentences \in (-1)..MaxTop
    /\ min_chars \in (-1)..MaxMinChars

\* A command line for main, or a POST of the web form.
Init ==
    /\ NoPage /\ NoSummary
    /\ sentences = <<>> /\ max_sentences = 0 /\ min_chars = 0
    /\ exc = "" /\ args = None /\ calls = NoCalls
    /\ output = None /\ exit_status = -1 /\ result = None /\ error = None
    /\ \/ caller = "cli" /\ pc = "main" /\ argv \in {<<a>> : a \in CliArgv}
       \/ caller = "web" /\ pc = "post" /\ argv \in {<<f>> : f \in FormValues}

(***************************************************************************)
(* Actions.                                                                *)
(***************************************************************************)
Presentation == <<argv, args, output, exit_status, result, error>>

SummaryVars == <<sentences, max_sentences, min_chars, filtered, word_freq,
                 sentence_scores, summary>>

\* A call of split_sentences(text).
Split ==
    /\ pc = "split"
    /\ normalized' = split_sentences(text)
    /\ pc' = "ok"
    /\ UNCHANGED <<caller, text, html, page, exc, calls>>
    /\ UNCHANGED SummaryVars /\ UNCHANGED Presentation

\* fetch_html: the two ScraperErrors it raises.
FetchErrors == {"Network error while fetching", "Unexpected status code"}

\* run: html = fetch_html(url).  The network decides: a RequestException, a
\* response that is not ok, or the page.
Fetch ==
    /\ pc = "fetch"
    /\ calls' = [calls EXCEPT !.fetch = @ + 1]
    /\ \/ /\ exc' \in FetchErrors
          /\ pc' = "raised"
          /\ html' = html
       \/ /\ html' \in {<<d>> : d \in PageDocs}
          /\ pc' = "extract"
          /\ exc' = exc
    /\ UNCHANGED <<caller, text, normalized, page>>
    /\ UNCHANGED SummaryVars /\ UNCHANGED Presentation

\* A call of extract_sentences(html); in run, page = extract_sentences(html).
Extract ==
    /\ pc = "extract"
    /\ calls' = [calls EXCEPT !.extract = @ + 1]
    /\ LET r == extract_sentences(html[1])
       IN  IF r.raised # ""
           THEN /\ exc' = r.raised
                /\ pc' = "raised"
                /\ UNCHANGED <<text, normalized, page>>
           ELSE /\ text' = r.cleaned
                /\ normalized' = r.sentences
                /\ page' = <<[title |-> r.title, sentences |-> r.sentences]>>
                /\ pc' = IF caller = "none" THEN "ok" ELSE "summarize"
                /\ exc' = exc
    /\ UNCHANGED <<caller, html>>
    /\ UNCHANGED SummaryVars /\ UNCHANGED Presentation

\* A call of summarize_sentences; in run, summary = summarize_sentences(
\* page.sentences, max_sentences=sentences, min_chars=min_chars).
Summarize ==
    /\ pc = "summarize"
    /\ calls' = [calls EXCEPT !.summarize = @ + 1]
    /\ sentences' = IF caller = "none" THEN sentences ELSE page[1].sentences
    /\ max_sentences' = IF caller = "none" THEN max_sentences ELSE args[1].sentences
    /\ min_chars' = IF caller = "none" THEN min_chars ELSE args[1].min_chars
    /\ LET r == summarize_sentences(sentences', max_sentences', min_chars')
       IN  /\ filtered' = r.filtered
           /\ word_freq' = r.word_freq
           /\ sentence_scores' = r.sentence_scores
           /\ summary' = r.value
           /\ exc' = r.raised
           /\ pc' = IF r.raised # "" THEN "raised" ELSE "ok"
    /\ UNCHANGED <<caller, text, normalized, html, page>>
    /\ UNCHANGED Presentation

\* argparse defaults (--sentences, --min-chars) and the form's defaults.
DefaultSentences == 5
DefaultMinChars == 40

\* An argparse option of type=int: its default when left out, else int(value).
IntOption(value, default) == IF value = None THEN <<default>> ELSE ParseInt(value[1])

\* main: args = parse_args(argv).  A value type=int rejects ends the process
\* with status 2 before run is called.
MainParse ==
    /\ pc = "main" /\ caller = "cli"
    /\ LET s == IntOption(argv[1].sentences, DefaultSentences)
           m == IntOption(argv[1].min_chars, DefaultMinChars)
       IN  IF s = None \/ m = None
           THEN /\ exit_status' = 2
                /\ pc' = "exit"
                /\ args' = args
           ELSE /\ args' = <<[sentences |-> s[1], min_chars |-> m[1]]>>
                /\ pc' = "fetch"
                /\ exit_status' = exit_status
    /\ UNCHANGED <<caller, text, normalized, html, page, exc, calls,
                   argv, output, result, error>>
    /\ UNCHANGED SummaryVars

\* main, after run returned: format_summary, then save_summary or print.
MainReturn ==
    /\ pc = "ok" /\ caller = "cli"
    /\ output' = <<[to |-> IF argv[1].output # None THEN "file" ELSE "stdout",
                    text |-> format_summary(page[1], summary)]>>
    /\ exit_status' = 0
    /\ pc' = "exit"
    /\ UNCHANGED <<caller, text, normalized, html, page, exc, calls,
                   argv, args, result, error>>
    /\ UNCHANGED SummaryVars

\* Variant of MainExcept: the error is logged and main ends with status 0.
MainExceptExitZero ==
    /\ pc = "raised" /\ caller = "cli"
    /\ exit_status' = 0
    /\ pc' = "exit"
    /\ UNCHANGED <<caller, text, normalized, html, page, exc, calls,
                   argv, args, output, result, error>>
    /\ UNCHANGED SummaryVars

\* main: except ScraperError as err: logging.error; raise SystemExit(1).
MainExcept ==
    /\ pc = "raised" /\ caller = "cli"
    /\ exit_status' = 1
    /\ pc' = "exit"
    /\ UNCHANGED <<caller, text, normalized, html, page, exc, calls,
                   argv, args, output, result, error>>
    /\ UNCHANGED SummaryVars

ErrNotNumeric == "Sentences and minimum characters must be numeric values."
ErrNoUrl == "Please enter a valid URL."

\* request.form.get(name, default).strip()
FormField(value, default) == Strip(IF value = None THEN default ELSE value[1])

FormUrl == FormField(argv[1].url, <<>>)
FormSentences == FormField(argv[1].sentences, <<"5">>)
FormMinChars == FormField(argv[1].min_chars, <<"4", "0">>)

\* Variant of Post: run is called without the test of the URL.
PostWithoutUrlTest ==
    /\ pc = "post" /\ caller = "web"
    /\ LET s == ParseInt(FormSentences)
           m == ParseInt(FormMinChars)
       IN  IF s = None \/ m = None
           THEN /\ error' = <<ErrNotNumeric>>
                /\ args' = <<[sentences |-> DefaultSentences,
                              min_chars |-> DefaultMinChars]>>
                /\ pc' = "rendered"
           ELSE /\ args' = <<[sentences |-> Max(1, s[1]), min_chars |-> Max(10, m[1])]>>
                /\ error' = error
                /\ pc' = "fetch"
    /\ UNCHANGED <<caller, text, normalized, html, page, exc, calls,
                   argv, output, exit_status, result>>
    /\ UNCHANGED SummaryVars

\* POST /: the form is read and checked; run is called only with two numeric
\* fields and a URL, else the page is rendered with the error.
Post ==
    /\ pc = "post" /\ caller = "web"
    /\ LET s == ParseInt(FormSentences)
           m == ParseInt(FormMinChars)
       IN  IF s = None \/ m = None
           THEN /\ error' = <<ErrNotNumeric>>
                /\ args' = <<[sentences |-> DefaultSentences,
                              min_chars |-> DefaultMinChars]>>
                /\ pc' = "rendered"
           ELSE /\ args' = <<[sentences |-> Max(1, s[1]), min_chars |-> Max(10, m[1])]>>
                /\ IF FormUrl = <<>>
                   THEN error' = <<ErrNoUrl>> /\ pc' = "rendered"
                   ELSE error' = error /\ pc' = "fetch"
    /\ UNCHANGED <<caller, text, normalized, html, page, exc, calls,
                   argv, output, exit_status, result>>
    /\ UNCHANGED SummaryVars

\* POST /, after run returned: result is set and the page rendered.
PostReturn ==
    /\ pc = "ok" /\ caller = "web"
    /\ result' = <<[title |-> page[1].title, url |-> FormUrl,
                    summary |-> summary, full_text |-> PageText(page[1])]>>
    /\ pc' = "rendered"
    /\ UNCHANGED <<caller, text, normalized, html, page, exc, calls,
                   argv, args, output, exit_status, error>>
    /\ UNCHANGED SummaryVars

\* POST /: except ScraperError as exc: error = str(exc); the page is rendered.
PostExcept ==
    /\ pc = "raised" /\ caller = "web"
    /\ error' = <<exc>>
    /\ pc' = "rendered"
    /\ UNCHANGED <<caller, text, normalized, html, page, exc, calls,
                   argv, args, output, exit_status, result>>
    /\ UNCHANGED SummaryVars

(***************************************************************************)
(* Specifications.                                                         *)
(***************************************************************************)
NextSplit == Split

NextExtract == Extract

NextSummarize == Summarize

Next ==
    \/ MainParse \/ MainReturn \/ MainExcept
    \/ Post \/ PostReturn \/ PostExcept
    \/ Fetch \/ Extract \/ Summarize

\* split_sentences on every text of the bounded alphabet.
SpecSplit == InitSplit /\ [][NextSplit]_vars

\* extract_sentences on every bounded document.
SpecExtract == InitExtract /\ [][NextExtract]_vars

\* summarize_sentences on every bounded sentence list and argument pair.
SpecSummarize == InitSummarize /\ [][NextSummarize]_vars

\* main and the POST handler, each running the pipeline once.
Spec == Init /\ [][Next]_vars

(***************************************************************************)
(* Properties.                                                             *)
(***************************************************************************)
\* a can be matched to strictly increasing positions of b.
RECURSIVE IsSubsequence(_, _)
IsSubsequence(a, b) ==
    IF a = <<>> THEN TRUE
    ELSE IF b = <<>> THEN FALSE
    ELSE IF Head(a) = Head(b) THEN IsSubsequence(Tail(a), Tail(b))
    ELSE IsSubsequence(a, Tail(b))

\* How many positions of list hold x.
Occurrences(list, x) == Cardinality({i \in DOMAIN list : list[i] = x})

NoDuplicates(list) == \A i, j \in DOMAIN list : list[i] = list[j] => i = j

RECURSIVE SetSum(_, _)
SetSum(S, f) ==
    IF S = {} THEN 0
    ELSE LET x == CHOOSE y \in S : TRUE IN f[x] + SetSum(S \ {x}, f)

\* summarize_sentences was called and returned / raised.
SummarizeReturned == calls.summarize > 0 /\ pc # "raised" /\ exc = ""

SummarizeRaised == calls.summarize > 0 /\ pc = "raised"

\* The precondition of summarize_sentences.
Precondition == max_sentences >= 1 /\ min_chars >= 0

\* C1 as stated: the summary has at most max_sentences items and is a
\* subsequence of the input list, duplicates in the input included.
C1_Subsequence ==
    (SummarizeReturned /\ Precondition) =>
        /\ Len(summary) <= max_sentences
        /\ IsSubsequence(summary, sentences)

\* C1 amended: the summary has at most max_sentences items, each an item of the
\* input, in the order of their first occurrences in the input; it is a
\* subsequence of the input when no sentence occurs twice in the input.
C1_SubsequenceNoDuplicates ==
    (SummarizeReturned /\ Precondition) =>
        /\ Len(summary) <= max_sentences
        /\ Range(summary) \subseteq Range(sentences)
        /\ \A i, j \in DOMAIN summary :
              i < j => Index(sentences, summary[i]) <= Index(sentences, summary[j])
        /\ NoDuplicates(sentences) => IsSubsequence(summary, sentences)

\* C1 witness: from three different sentences two are selected, the later one
\* of higher score, so that the selection order is not the document order.
C1_Witness ==
    /\ SummarizeReturned /\ Precondition
    /\ NoDuplicates(sentences) /\ Len(sentences) = 3 /\ Len(summary) = 2
    /\ sentence_scores[summary[1]] < sentence_scores[summary[2]]

\* The positions of filtered that rank among the first k when ordered by
\* falling score and, for equal scores, by rising position.
TopPositions(k) ==
    LET score(i) == sentence_scores[filtered[i]]
        beats(i, j) == score(i) > score(j) \/ (score(i) = score(j) /\ i < j)
    IN  {j \in DOMAIN filtered :
            Cardinality({i \in DOMAIN filtered : beats(i, j)}) < k}

\* C2: the summary holds exactly min(max_sentences, number of qualifying
\* sentences) of the qualifying sentences, namely those of highest score, the
\* earlier one of two of equal score first.
C2_TopSelection ==
    (SummarizeReturned /\ Precondition) =>
        LET qualifying == {i \in DOMAIN sentences : Len(sentences[i]) >= min_chars}
            k == Min(max_sentences, Cardinality(qualifying))
            chosen == TopPositions(k)
        IN  /\ Len(filtered) = Cardinality(qualifying)
            /\ \A s \in Range(filtered) :
                  Occurrences(filtered, s) =
                      Cardinality({i \in qualifying : sentences[i] = s})
            /\ Len(summary) = k
            /\ \A s \in Range(filtered) :
                  Occurrences(summary, s) =
                      Cardinality({i \in chosen : filtered[i] = s})

\* C2 witness: two qualifying sentences of equal score, one place in the
\* summary: the earlier one is selected and the later one is not.
C2_Witness ==
    /\ SummarizeReturned /\ Precondition
    /\ Len(summary) = max_sentences /\ Len(summary) < Len(filtered)
    /\ \E i, j \in DOMAIN filtered :
          /\ i < j
          /\ sentence_scores[filtered[i]] = sentence_scores[filtered[j]]
          /\ filtered[i] \in Range(summary)
          /\ filtered[j] \notin Range(summary)

\* The significant words of the sentences of a list.
SignificantWords(list) ==
    UNION {Range(tokenize_sentence(list[i])) : i \in DOMAIN list}

\* C3: a word's frequency is the number of qualifying sentences that hold it;
\* a sentence's score is, summed over its words, occurrences in the sentence
\* times frequency; every score is a natural number.
C3_FrequencyAndScore ==
    LET qualifying == SelectSeq(sentences, LAMBDA s : Len(s) >= min_chars)
        holds(w) == {i \in DOMAIN qualifying :
                        w \in Range(tokenize_sentence(qualifying[i]))}
    IN  /\ (calls.summarize > 0 /\ qualifying # <<>>) =>
              /\ DOMAIN word_freq = SignificantWords(qualifying)
              /\ \A w \in DOMAIN word_freq : word_freq[w] = Cardinality(holds(w))
        /\ SummarizeReturned =>
              /\ DOMAIN sentence_scores = Range(qualifying)
              /\ \A s \in Range(qualifying) :
                    LET tokens == tokenize_sentence(s)
                        weight == [w \in Range(tokens) |->
                                      Occurrences(tokens, w) * Cardinality(holds(w))]
                    IN  /\ sentence_scores[s] = SetSum(Range(tokens), weight)
                        /\ sentence_scores[s] \in Nat

\* C3 witness: a word held by two sentences and repeated in one of them, which
\* scores twice the frequency.
C3_Witness ==
    /\ SummarizeReturned
    /\ \E s \in Range(filtered) : \E w \in DOMAIN word_freq :
          /\ Occurrences(tokenize_sentence(s), w) = 2
          /\ word_freq[w] = 2
          /\ sentence_scores[s] = 4

\* C4: the call raises, and returns nothing, when no sentence has min_chars
\* characters and when no such sentence holds a significant word; every other
\* call with max_sentences >= 1 returns a summary that is not empty.
C4_ErrorsAndNonEmpty ==
    (calls.summarize > 0 /\ max_sentences >= 1) =>
        LET qualifying == {i \in DOMAIN sentences : Len(sentences[i]) >= min_chars}
            nothing == \A i \in qualifying : tokenize_sentence(sentences[i]) = <<>>
        IN  /\ nothing => (SummarizeRaised /\ exc # "" /\ summary = <<>>)
            /\ ~nothing => (SummarizeReturned /\ summary # <<>>)

\* C4 witness: sentences that are long enough but hold only stopwords and
\* digits, and the call raised.
C4_Witness ==
    /\ SummarizeRaised /\ Precondition
    /\ exc = ErrNoWords
    /\ Len(filtered) = 2 /\ filtered[1] # filtered[2]

\* The elements of the body that extract_sentences keeps.
KeptBody(doc) == SelectSeq(doc.body, LAMBDA e : e.tag \notin Decomposed)

BodyHasNoText(doc) == \A i \in DOMAIN KeptBody(doc) : Strip(KeptBody(doc)[i].text) = <<>>

\* The whitespace-normalized text of the body alone.
BodyText(doc) ==
    LET kept == KeptBody(doc)
    IN  Strip(CollapseWhitespace(Join(<<" ">>, [i \in DOMAIN kept |-> kept[i].text])))

\* C5 as stated: extract_sentences raises for every document whose body holds
\* no text, whatever the title element holds; without paragraph elements the
\* text that is split is the text of the body only.
C5_EmptyBodyRaises ==
    (caller = "none" /\ calls.extract > 0) =>
        /\ BodyHasNoText(html[1]) => (exc = ErrNoText /\ page = None)
        /\ (page # None /\ \A i \in DOMAIN html[1].body : html[1].body[i].tag # "p")
              => text = BodyText(html[1])

\* t is trimmed and single-spaced.
IsNormalizedText(t) ==
    /\ \A i \in DOMAIN t : t[i] \in Whitespace => t[i] = " "
    /\ \A i \in DOMAIN t : (t[i] = " " /\ i < Len(t)) => t[i+1] # " "
    /\ t # <<>> => (t[1] # " " /\ t[Len(t)] # " ")

\* C6: for a text that is not empty, trimmed and single-spaced, the sentences
\* returned are not empty and carry no outer whitespace, joined by single
\* spaces they are the text, and every sentence but the last ends with the
\* '.', '!' or '?' it was split after.
C6_SplitRoundTrip ==
    (caller = "none" /\ pc = "ok" /\ calls.extract = 0 /\ calls.summarize = 0
        /\ text # <<>> /\ IsNormalizedText(text)) =>
        /\ \A i \in DOMAIN normalized :
              /\ normalized[i] # <<>>
              /\ normalized[i][1] \notin Whitespace
              /\ normalized[i][Len(normalized[i])] \notin Whitespace
        /\ Join(<<" ">>, normalized) = text
        /\ \A i \in 1..(Len(normalized) - 1) :
              normalized[i][Len(normalized[i])] \in SentenceEnd

\* C6 witness: a normalized text split into two sentences, the second with a
\* space that follows no sentence end.
C6_Witness ==
    /\ caller = "none" /\ pc = "ok" /\ calls.extract = 0 /\ calls.summarize = 0
    /\ text # <<>> /\ IsNormalizedText(text)
    /\ Len(normalized) = 2
    /\ \E i \in DOMAIN normalized[2] : normalized[2][i] = " "

\* C7 as stated: the title returned is the trimmed text of the title element,
\* "Untitled page" when the element is absent or its trimmed text is empty,
\* and never the empty string.
C7_Title ==
    (caller = "none" /\ page # None) =>
        LET title_tag == html[1].title
            trimmed == IF title_tag = None THEN <<>> ELSE Strip(title_tag[1])
        IN  /\ page[1].title = IF trimmed = <<>> THEN UntitledPage ELSE trimmed
            /\ page[1].title # <<>>

\* C8 as stated: every call of summarize_sentences made for main or for the
\* POST handler has max_sentences >= 1 and min_chars >= 0.
C8_CallPrecondition ==
    (caller \in {"cli", "web"} /\ calls.summarize > 0) => Precondition

\* C9: in a run for main no stage is entered twice or after a failed stage; a
\* failure leaves nothing printed or saved and the exit status 1; something is
\* printed or saved only after fetch, extract and summarize all returned.
C9_FailureAborts ==
    caller = "cli" =>
        /\ \A stage \in DOMAIN calls : calls[stage] <= 1
        /\ calls.summarize <= calls.extract /\ calls.extract <= calls.fetch
        /\ exc \in FetchErrors => (calls.extract = 0 /\ calls.summarize = 0)
        /\ exc = ErrNoText => calls.summarize = 0
        /\ exc # "" => (output = None /\ pc \in {"raised", "exit"})
        /\ (exc # "" /\ pc = "exit") => exit_status = 1
        /\ output # None =>
              /\ exc = "" /\ pc = "exit"
              /\ calls = [fetch |-> 1, extract |-> 1, summarize |-> 1]
              /\ html # None /\ page # None

\* C9 witness: extract failed, summarize was never called, nothing was printed
\* and main ended with status 1.
C9_Witness ==
    /\ caller = "cli" /\ pc = "exit"
    /\ exc = ErrNoText /\ calls.summarize = 0
    /\ output = None /\ exit_status = 1

\* s reads as a decimal integer: an optional sign, then digits only.
LooksNumeric(s) ==
    LET ds == IF s # <<>> /\ s[1] \in {"+", "-"} THEN Tail(s) ELSE s
    IN  ds # <<>> /\ \A i \in DOMAIN ds : ds[i] \in Range(Digits)

\* C10: a POST is rendered with exactly one of result and error; error when a
\* numeric field is not an integer, when the URL is empty, or when the
\* pipeline raised, result in every other case; and with a field that is not
\* an integer or an empty URL no stage of the pipeline is ever entered.
C10_RenderResultOrError ==
    caller = "web" =>
        LET field(name, default) ==
                Strip(IF argv[1][name] = None THEN default ELSE argv[1][name][1])
            invalid == \/ ~LooksNumeric(field("sentences", <<"5">>))
                       \/ ~LooksNumeric(field("min_chars", <<"4", "0">>))
            no_url == field("url", <<>>) = <<>>
        IN  /\ (invalid \/ no_url) => calls = NoCalls
            /\ pc = "rendered" =>
                  /\ (result = None) # (error = None)
                  /\ (invalid \/ no_url \/ exc # "") <=> (error # None /\ result = None)
                  /\ exc # "" => error = <<exc>>
            /\ pc # "rendered" => (result = None /\ error = None)

\* C10 witness: a POST with numeric fields and a URL whose pipeline returned
\* a summary of two sentences, rendered as the result.
C10_Witness ==
    /\ caller = "web" /\ pc = "rendered"
    /\ result # None /\ error = None
    /\ Len(result[1].summary) = 2
=============================================================================
